---------------------------- MODULE Spec2Model ----------------------------
(***************************************************************************)
(* A model of ShellExecReactorPlugin (io-event-reactor-plugin-shell-exec): *)
(* the constructor, its two fs.stat probe callbacks, react() and the       *)
(* then/catch handlers react() hangs on the executor's promise.            *)
(*                                                                         *)
(* Strings are JavaScript strings ("" is falsy), a command batch is a      *)
(* sequence of strings, a promise is a record that settles at most once.   *)
(***************************************************************************)
EXTENDS Naturals, Sequences, FiniteSets, TLC

VARIABLES
    pluginConfig,  \* the pluginConfig object handed to the constructor
    constructed,   \* has the constructor run
    self,          \* the instance fields of the plugin (this._xxx)
    ctorTrace,     \* what the constructor and its probes did to the owner's callbacks
    pendingStat,   \* fs.stat callbacks registered and not yet run
    uncaught,      \* exceptions that escaped an asynchronous callback
    calls,         \* one record per react() invocation, in invocation order
    executorLog    \* every executeCommands() the executor received, in order

vars == <<pluginConfig, constructed, self, ctorTrace, pendingStat, uncaught,
          calls, executorLog>>

-----------------------------------------------------------------------------
(* Bounds of the model *)

MaxCalls == 2

MaxTemplates == 2

-----------------------------------------------------------------------------
(* Values *)

PluginId == "shellExec1"

ReactorId == "reactor1"

NoError == [kind |-> "undefined", detail |-> ""]

ErrorOf(kind, detail) == [kind |-> kind, detail |-> detail]

\* the error an executor's promise may reject with
ExecErrors == {ErrorOf("ExecError", "command failed")}

\* IoEvent: eventType and fullPath, the path kept as its components
IoEvent(eventType, fullPath) == [eventType |-> eventType, fullPath |-> fullPath]

Events ==
    { IoEvent("add", <<"a", "b", "c.txt">>), IoEvent("unlink", <<"d.log">>) }

GeneratorProbeEvent == IoEvent("testEventType", <<"test", "full", "path", "tothing.zip">>)

TemplateProbeEvent == IoEvent("testEventType", <<"test", "full", "path", "tothing">>)

RECURSIVE PathString(_)
\* the fullPath string of a path: "/a/b/c.txt"
PathString(p) == IF p = <<>> THEN "" ELSE "/" \o Head(p) \o PathString(Tail(p))

\* IoEvent's derived getters
Filename(e) == e.fullPath[Len(e.fullPath)]

ParentPath(e) == PathString(SubSeq(e.fullPath, 1, Len(e.fullPath) - 1))

ReactorResult(success, pluginId, reactorId, ioEvent, message, error) ==
    [isSuccess |-> success, pluginId |-> pluginId, reactorId |-> reactorId,
     ioEvent |-> ioEvent, message |-> message, error |-> error]

-----------------------------------------------------------------------------
(* Mustache templates: a template is a sequence of segments, literal text, *)
(* a {{ns.field}} tag, or a malformed tag the parser rejects.              *)

Lit(text) == [kind |-> "lit", a |-> text, b |-> ""]

Var(ns, field) == [kind |-> "var", a |-> ns, b |-> field]

Malformed == [kind |-> "bad", a |-> "{{#", b |-> ""]

TplFullPath == <<Lit("cp "), Var("ioEvent", "fullPath")>>

TplEventNs == <<Var("event", "filename")>>

TplMalformed == <<Lit("echo "), Malformed>>

TemplatePool == {TplFullPath, TplEventNs, TplMalformed}

\* the value of view[ns][field]; a name the view does not hold renders as ""
Lookup(viewKey, e, ns, field) ==
    IF ns # viewKey THEN ""
    ELSE CASE field = "eventType" -> e.eventType
           [] field = "fullPath" -> PathString(e.fullPath)
           [] field = "parentPath" -> ParentPath(e)
           [] field = "filename" -> Filename(e)
           [] OTHER -> ""

RECURSIVE RenderSegments(_, _, _)
RenderSegments(segs, viewKey, e) ==
    IF segs = <<>> THEN ""
    ELSE LET s == Head(segs)
             txt == IF s.kind = "lit" THEN s.a ELSE Lookup(viewKey, e, s.a, s.b)
         IN txt \o RenderSegments(Tail(segs), viewKey, e)

\* Mustache.render(template, {viewKey: e}): the output, or the parse error thrown
MustacheRender(template, viewKey, e) ==
    IF \E i \in 1..Len(template) : template[i].kind = "bad"
    THEN [threw |-> TRUE, out |-> "", error |-> ErrorOf("MustacheError", "unclosed tag")]
    ELSE [threw |-> FALSE, out |-> RenderSegments(template, viewKey, e), error |-> NoError]

\* a faulty view: the event is handed to the template under the key 'event'
ReactViewKeyEvent == "event"

\* the key under which react() hands the event to the template
ReactViewKey == "ioEvent"

-----------------------------------------------------------------------------
(* The user's commandGenerator functions *)

GeneratorKinds == {"genList", "genNothing", "genThrows"}

\* commandGenerator(ioEvent): the array returned (defined = FALSE: undefined), or the throw
GeneratorApply(gen, e) ==
    CASE gen = "genList" ->
            [threw |-> FALSE, defined |-> TRUE, error |-> NoError,
             cmds |-> <<"cmdA " \o PathString(e.fullPath), "cmdB " \o e.eventType>>]
      [] gen = "genNothing" ->
            \* function(e) { if (e.eventType == 'add') return []; }
            [threw |-> FALSE, defined |-> (e.eventType = "add"), error |-> NoError,
             cmds |-> <<>>]
      [] OTHER ->
            [threw |-> TRUE, defined |-> FALSE, cmds |-> <<>>,
             error |-> ErrorOf("GeneratorError", PathString(e.fullPath))]

-----------------------------------------------------------------------------
(* Configurations *)

RECURSIVE SeqsUpTo(_, _)
SeqsUpTo(S, n) ==
    IF n = 0 THEN {<<>>}
    ELSE LET shorter == SeqsUpTo(S, n - 1)
         IN shorter \cup {Append(s, x) : s \in {t \in shorter : Len(t) = n - 1}, x \in S}

ProxyKinds == {"config", "configThrows", "instance", "neither", "missingSection"}

TemplateConfigs ==
    {[defined |-> FALSE, list |-> <<>>]}
        \cup {[defined |-> TRUE, list |-> l] : l \in SeqsUpTo(TemplatePool, MaxTemplates)}

PluginConfigs ==
    [statefulProcessCommandProxy : ProxyKinds,
     commandTemplates : TemplateConfigs,
     commandGenerator : {"absent"} \cup GeneratorKinds]

-----------------------------------------------------------------------------
(* Promises *)

PendingPromise == [state |-> "pending", value |-> [type |-> "none"], settles |-> 0]

ResultValue(r) == [type |-> "ReactorResult", result |-> r]

RawValue(err) == [type |-> "Error", error |-> err]

\* the resolve/reject functions of a promise: only the first call has an effect
PromiseSettle(p, state, value) ==
    IF p.state = "pending"
    THEN [state |-> state, value |-> value, settles |-> p.settles + 1]
    ELSE p

PromiseResolve(p, value) == PromiseSettle(p, "fulfilled", value)

PromiseReject(p, value) == PromiseSettle(p, "rejected", value)


-----------------------------------------------------------------------------
(* The constructor *)

TraceEntry(ev, a, b) == [ev |-> ev, a |-> a, b |-> b]

\* a faulty report: the error is logged and the error callback is not invoked
LogOnly(what, err) ==
    <<TraceEntry("log", "error", what)>>

\* this._log(severity, message) and this._onError(message, error), as the owner sees them
LogAndOnError(what, err) ==
    <<TraceEntry("log", "error", what), TraceEntry("onError", what, err.kind)>>

Unconstructed ==
    [_pluginId |-> "undefined", _reactorId |-> "undefined",
     _statefulProcessCommandProxy |-> "undefined",
     _commandTemplates |-> [defined |-> FALSE, list |-> <<>>],
     _commandGenerator |-> "undefined"]

\* a faulty binding: a supplied instance is ignored and a proxy of the reactor's
\* own is constructed in its place
BindExecutorReplacesInstance(kind) ==
    CASE kind \in {"config", "instance"} ->
            [proxy |-> "owned", trace |-> <<>>, abort |-> FALSE]
      [] kind = "configThrows" ->
            [proxy |-> "undefined", abort |-> FALSE,
             trace |-> LogAndOnError("error constructing StatefulProcessCommandProxy",
                                     ErrorOf("ProxyError", "bad config"))]
      [] OTHER ->
            [proxy |-> "undefined", abort |-> TRUE,
             trace |-> LogAndOnError("unexpected error", ErrorOf("Error", "no executor"))]

\* the statefulProcessCommandProxy section: the binding made, what is reported,
\* and whether the throw reaches the outer catch (abort)
BindExecutor(kind) ==
    CASE kind = "config" ->
            [proxy |-> "owned", trace |-> <<>>, abort |-> FALSE]
      [] kind = "configThrows" ->
            [proxy |-> "undefined", abort |-> FALSE,
             trace |-> LogAndOnError("error constructing StatefulProcessCommandProxy",
                                     ErrorOf("ProxyError", "bad config"))]
      [] kind = "instance" ->
            [proxy |-> "instance", trace |-> <<>>, abort |-> FALSE]
      [] kind = "neither" ->
            [proxy |-> "undefined", abort |-> TRUE,
             trace |-> LogAndOnError("unexpected error",
                                     ErrorOf("Error", "must contain either 'instance' or 'config'"))]
      [] OTHER ->
            [proxy |-> "undefined", abort |-> TRUE,
             trace |-> LogAndOnError("unexpected error",
                                     ErrorOf("TypeError", "statefulProcessCommandProxy is undefined"))]

HasGenerator(cfg) == cfg.commandGenerator \in GeneratorKinds

HasTemplates(cfg) == cfg.commandTemplates.defined

\* a faulty constructor: it has no outer catch, so a throw of the executor section
\* leaves the constructor
ConstructRethrows ==
    /\ ~constructed
    /\ constructed' = TRUE
    /\ LET cfg == pluginConfig
           bound == BindExecutor(cfg.statefulProcessCommandProxy)
           base == [Unconstructed EXCEPT !._pluginId = PluginId,
                                         !._reactorId = ReactorId,
                                         !._statefulProcessCommandProxy = bound.proxy]
       IN IF bound.abort
          THEN /\ self' = base
               /\ ctorTrace' = <<TraceEntry("throw", "", "")>>
               /\ pendingStat' = {}
          ELSE /\ self' = [base EXCEPT
                              !._commandGenerator =
                                  IF HasGenerator(cfg) THEN cfg.commandGenerator ELSE @,
                              !._commandTemplates =
                                  IF HasTemplates(cfg) THEN cfg.commandTemplates ELSE @]
               /\ ctorTrace' =
                      bound.trace
                          \o (IF HasTemplates(cfg)
                              THEN <<TraceEntry("initialized", PluginId, "")>>
                              ELSE <<>>)
                          \o <<TraceEntry("return", "", "")>>
               /\ pendingStat' =
                      (IF HasGenerator(cfg) THEN {"generator"} ELSE {})
                          \cup (IF HasTemplates(cfg) THEN {"templates"} ELSE {})
    /\ UNCHANGED <<pluginConfig, uncaught, calls, executorLog>>

Construct ==
    /\ ~constructed
    /\ constructed' = TRUE
    /\ LET cfg == pluginConfig
           bound == BindExecutor(cfg.statefulProcessCommandProxy)
           base == [Unconstructed EXCEPT !._pluginId = PluginId,
                                         !._reactorId = ReactorId,
                                         !._statefulProcessCommandProxy = bound.proxy]
       IN IF bound.abort
          THEN /\ self' = base
               /\ ctorTrace' = bound.trace \o <<TraceEntry("return", "", "")>>
               /\ pendingStat' = {}
          ELSE /\ self' = [base EXCEPT
                              !._commandGenerator =
                                  IF HasGenerator(cfg) THEN cfg.commandGenerator ELSE @,
                              !._commandTemplates =
                                  IF HasTemplates(cfg) THEN cfg.commandTemplates ELSE @]
               /\ ctorTrace' =
                      bound.trace
                          \o (IF HasTemplates(cfg)
                              THEN <<TraceEntry("initialized", PluginId, "")>>
                              ELSE <<>>)
                          \o <<TraceEntry("return", "", "")>>
               /\ pendingStat' =
                      (IF HasGenerator(cfg) THEN {"generator"} ELSE {})
                          \cup (IF HasTemplates(cfg) THEN {"templates"} ELSE {})
    /\ UNCHANGED <<pluginConfig, uncaught, calls, executorLog>>

\* the fs.stat callback that pre-tests the commandGenerator
GeneratorProbe ==
    /\ "generator" \in pendingStat
    /\ pendingStat' = pendingStat \ {"generator"}
    /\ LET out == GeneratorApply(self._commandGenerator, GeneratorProbeEvent)
       IN IF out.threw
          THEN /\ uncaught' = uncaught \cup {out.error}
               /\ UNCHANGED ctorTrace
          ELSE /\ ctorTrace' = Append(ctorTrace,
                                      TraceEntry("log", "info", "commandGenerator() returned"))
               /\ UNCHANGED uncaught
    /\ UNCHANGED <<pluginConfig, constructed, self, calls, executorLog>>

RECURSIVE ProbeTemplates(_)
ProbeTemplates(templates) ==
    IF templates = <<>> THEN <<>>
    ELSE LET r == MustacheRender(Head(templates), ReactViewKey, TemplateProbeEvent)
         IN <<IF r.threw
              THEN TraceEntry("log", "error", "error pre-testing Mustache commandTemplate")
              ELSE TraceEntry("log", "info", "commandTemplate rendered")>>
            \o ProbeTemplates(Tail(templates))

\* the fs.stat callback that pre-tests every commandTemplate
TemplatesProbe ==
    /\ "templates" \in pendingStat
    /\ pendingStat' = pendingStat \ {"templates"}
    /\ ctorTrace' = ctorTrace \o ProbeTemplates(self._commandTemplates.list)
    /\ UNCHANGED <<pluginConfig, constructed, self, uncaught, calls, executorLog>>

getId == self._pluginId

-----------------------------------------------------------------------------
(* react() *)

LogEntry(severity, message) == [severity |-> severity, message |-> message]

NoExecPromise == [state |-> "none", results |-> <<>>, error |-> NoError]

\* a faulty react(): the command list lives on the reactor and is carried over
\* from the previous call
NewCallKeepsCommands(ioEvent) ==
    [ioEvent |-> ioEvent,
     commandsToExec |-> IF calls = <<>> THEN <<>> ELSE calls[Len(calls)].commandsToExec,
     rendered |-> <<>>,
     generatorInvoked |-> FALSE,
     thrown |-> <<>>,
     submitted |-> <<>>,
     returned |-> "promise",
     promise |-> PendingPromise,
     produced |-> <<>>,
     execPromise |-> NoExecPromise,
     handled |-> "no",
     logs |-> <<LogEntry("info", "REACT invoked")>>]

\* the state of one react() call when the function passed to new Promise() starts
NewCall(ioEvent) ==
    [ioEvent |-> ioEvent,
     commandsToExec |-> <<>>,     \* var commandsToExec = []
     rendered |-> <<>>,           \* the templates Mustache.render was called on (indexes)
     generatorInvoked |-> FALSE,  \* was this._commandGenerator called
     thrown |-> <<>>,             \* the exceptions the catch blocks caught, in order
     submitted |-> <<>>,          \* the batches handed to executeCommands
     returned |-> "promise",      \* what react() gave its caller: a promise, or a throw
     promise |-> PendingPromise,  \* the promise react() returns
     produced |-> <<>>,           \* every ReactorResult the call constructed, in order
     execPromise |-> NoExecPromise, \* the promise executeCommands returned
     handled |-> "no",            \* which of the then/catch handlers has run
     logs |-> <<LogEntry("info", "REACT invoked")>>]

\* a faulty render failure Result: pluginId and reactorId are passed in each
\* other's place
RenderFailureSwapsIds(c, err) ==
    ReactorResult(FALSE, self._reactorId, getId, c.ioEvent,
                  "Error generating command from mustache template", err)

RenderFailure(c, err) ==
    ReactorResult(FALSE, getId, self._reactorId, c.ioEvent,
                  "Error generating command from mustache template", err)

\* a faulty generator failure Result: it is flagged as a success
GeneratorFailureAsSuccess(c, err) ==
    ReactorResult(TRUE, getId, self._reactorId, c.ioEvent,
                  "Error generating command from command generator function", err)

GeneratorFailure(c, err) ==
    ReactorResult(FALSE, getId, self._reactorId, c.ioEvent,
                  "Error generating command from command generator function", err)

\* a faulty success Result: it carries the event of the reactor's first reaction
ExecSuccessFirstEvent(c) ==
    ReactorResult(TRUE, getId, self._reactorId, calls[1].ioEvent,
                  "Executed commands successfully", NoError)

ExecSuccess(c) ==
    ReactorResult(TRUE, getId, self._reactorId, c.ioEvent,
                  "Executed commands successfully", NoError)

\* a faulty failure Result: the executor's error is left out
ExecFailureNoError(c, err) ==
    ReactorResult(FALSE, getId, self._reactorId, c.ioEvent,
                  "Error executing commands", NoError)

ExecFailure(c, err) ==
    ReactorResult(FALSE, getId, self._reactorId, c.ioEvent,
                  "Error executing commands", err)

Caught(step, err) == [step |-> step, error |-> err]

\* a faulty template loop body: the catch block swallows the render error
RenderOneSwallows(c, i) ==
    LET r == MustacheRender(self._commandTemplates.list[i], ReactViewKey, c.ioEvent)
        d == [c EXCEPT !.rendered = Append(@, i)]
    IN IF r.threw
       THEN [d EXCEPT !.thrown = Append(@, Caught("render", r.error))]
       ELSE IF r.out # ""
            THEN [d EXCEPT !.commandsToExec = Append(@, r.out)]
            ELSE d

\* a faulty template loop body: an empty rendering is pushed like any other
RenderOnePushesEmpty(c, i) ==
    LET r == MustacheRender(self._commandTemplates.list[i], ReactViewKey, c.ioEvent)
        d == [c EXCEPT !.rendered = Append(@, i)]
    IN IF r.threw
       THEN [d EXCEPT !.thrown = Append(@, Caught("render", r.error)),
                      !.produced = Append(@, RenderFailure(c, r.error)),
                      !.promise = PromiseReject(@, ResultValue(RenderFailure(c, r.error)))]
       ELSE [d EXCEPT !.commandsToExec = Append(@, r.out)]

\* the body of the template loop for the template at index i
RenderOne(c, i) ==
    LET r == MustacheRender(self._commandTemplates.list[i], ReactViewKey, c.ioEvent)
        d == [c EXCEPT !.rendered = Append(@, i)]
    IN IF r.threw
       THEN [d EXCEPT !.thrown = Append(@, Caught("render", r.error)),
                      !.produced = Append(@, RenderFailure(c, r.error)),
                      !.promise = PromiseReject(@, ResultValue(RenderFailure(c, r.error)))]
       ELSE IF r.out # ""
            THEN [d EXCEPT !.commandsToExec = Append(@, r.out)]
            ELSE d

RECURSIVE TemplateLoop(_, _)
\* for (let template of self._commandTemplates), from index i on
TemplateLoop(c, i) ==
    IF i > Len(self._commandTemplates.list) THEN c
    ELSE TemplateLoop(RenderOne(c, i), i + 1)

\* #1 collect commands from the command templates
CollectFromTemplates(c) ==
    IF self._commandTemplates.defined /\ Len(self._commandTemplates.list) > 0
    THEN TemplateLoop(c, 1)
    ELSE c

\* a faulty step #2: the generated commands are put before the rendered ones
CollectFromGeneratorFirst(c) ==
    IF self._commandGenerator \in GeneratorKinds
    THEN LET g == GeneratorApply(self._commandGenerator, c.ioEvent)
             d == [c EXCEPT !.generatorInvoked = TRUE]
         IN IF g.threw
            THEN [d EXCEPT !.thrown = Append(@, Caught("generator", g.error)),
                           !.produced = Append(@, GeneratorFailure(c, g.error)),
                           !.promise =
                               PromiseReject(@, ResultValue(GeneratorFailure(c, g.error)))]
            ELSE IF g.defined /\ Len(g.cmds) > 0
                 THEN [d EXCEPT !.commandsToExec = g.cmds \o @]
                 ELSE d
    ELSE c

\* #2 collect commands from the command generator
CollectFromGenerator(c) ==
    IF self._commandGenerator \in GeneratorKinds
    THEN LET g == GeneratorApply(self._commandGenerator, c.ioEvent)
             d == [c EXCEPT !.generatorInvoked = TRUE]
         IN IF g.threw
            THEN [d EXCEPT !.thrown = Append(@, Caught("generator", g.error)),
                           !.produced = Append(@, GeneratorFailure(c, g.error)),
                           !.promise =
                               PromiseReject(@, ResultValue(GeneratorFailure(c, g.error)))]
            ELSE IF g.defined /\ Len(g.cmds) > 0
                 THEN [d EXCEPT !.commandsToExec = @ \o g.cmds]
                 ELSE d
    ELSE c

\* a faulty react(): the exception leaves react() instead of rejecting the promise
ExecutorFunctionThrewOut(c, err) ==
    [c EXCEPT !.returned = "threw"]

\* an exception thrown by the function passed to new Promise(): the constructor
\* catches it and rejects the promise with it
ExecutorFunctionThrew(c, err) ==
    [c EXCEPT !.promise = PromiseReject(@, RawValue(err))]

\* a faulty step #3: an empty batch is not submitted
ExecAllSkipsEmpty(c) ==
    IF self._statefulProcessCommandProxy = "undefined"
    THEN ExecutorFunctionThrew(c, ErrorOf("TypeError", "executeCommands of undefined"))
    ELSE IF c.commandsToExec = <<>>
         THEN [c EXCEPT !.promise = PromiseResolve(@, ResultValue(
                   ReactorResult(TRUE, getId, self._reactorId, c.ioEvent,
                                 "Executed commands successfully", NoError)))]
         ELSE [c EXCEPT !.submitted = Append(@, c.commandsToExec),
                        !.execPromise = [NoExecPromise EXCEPT !.state = "pending"]]

\* a faulty step #3: every command is handed to the executor in a call of its own
ExecAllOneByOne(c) ==
    IF self._statefulProcessCommandProxy = "undefined"
    THEN ExecutorFunctionThrew(c, ErrorOf("TypeError", "executeCommands of undefined"))
    ELSE [c EXCEPT !.submitted = IF c.commandsToExec = <<>>
                                 THEN <<(<<>>)>>
                                 ELSE [k \in 1..Len(c.commandsToExec) |->
                                          <<c.commandsToExec[k]>>],
                   !.execPromise = [NoExecPromise EXCEPT !.state = "pending"]]

\* #3 self._statefulProcessCommandProxy.executeCommands(commandsToExec)
ExecAll(c) ==
    IF self._statefulProcessCommandProxy = "undefined"
    THEN ExecutorFunctionThrew(c, ErrorOf("TypeError", "executeCommands of undefined"))
    ELSE [c EXCEPT !.submitted = Append(@, c.commandsToExec),
                   !.execPromise = [NoExecPromise EXCEPT !.state = "pending"]]

ReactBody(ioEvent) == ExecAll(CollectFromGenerator(CollectFromTemplates(NewCall(ioEvent))))

\* a faulty react(): a call in which a rendering throws drops the configured
\* templates from the reactor
ReactDropsTemplates(ioEvent) ==
    /\ constructed
    /\ Len(calls) < MaxCalls
    /\ LET c == ReactBody(ioEvent)
       IN /\ calls' = Append(calls, c)
          /\ self' = IF c.thrown # <<>>
                     THEN [self EXCEPT !._commandTemplates.list = <<>>]
                     ELSE self
          /\ executorLog' =
                 IF c.submitted # <<>>
                 THEN Append(executorLog,
                             [call |-> Len(calls) + 1,
                              op |-> "executeCommands",
                              commands |-> c.submitted[1],
                              target |-> self._statefulProcessCommandProxy])
                 ELSE executorLog
    /\ UNCHANGED <<pluginConfig, constructed, ctorTrace, pendingStat, uncaught>>

\* a faulty react(): the batch is queued in front of the batches handed over before
ReactSubmitsInFront(ioEvent) ==
    /\ constructed
    /\ Len(calls) < MaxCalls
    /\ LET c == ReactBody(ioEvent)
       IN /\ calls' = Append(calls, c)
          /\ executorLog' =
                 IF c.submitted # <<>>
                 THEN <<[call |-> Len(calls) + 1,
                         op |-> "executeCommands",
                         commands |-> c.submitted[1],
                         target |-> self._statefulProcessCommandProxy]>> \o executorLog
                 ELSE executorLog
    /\ UNCHANGED <<pluginConfig, constructed, self, ctorTrace, pendingStat, uncaught>>

React(ioEvent) ==
    /\ constructed
    /\ Len(calls) < MaxCalls
    /\ LET c == ReactBody(ioEvent)
       IN /\ calls' = Append(calls, c)
          /\ executorLog' =
                 IF c.submitted # <<>>
                 THEN Append(executorLog,
                             [call |-> Len(calls) + 1,
                              op |-> "executeCommands",
                              commands |-> c.submitted[1],
                              target |-> self._statefulProcessCommandProxy])
                 ELSE executorLog
    /\ UNCHANGED <<pluginConfig, constructed, self, ctorTrace, pendingStat, uncaught>>

-----------------------------------------------------------------------------
(* The executor, and the handlers react() hung on its promise *)

CmdResult(cmd) == [command |-> cmd, stdout |-> "", stderr |-> ""]

\* the executor's promise fulfilled: one result per command of the batch
Fulfilled(c) ==
    [state |-> "fulfilled",
     results |-> [k \in 1..Len(c.submitted[1]) |-> CmdResult(c.submitted[1][k])],
     error |-> NoError]

\* the executor's promise rejected with err
Rejected(err) == [state |-> "rejected", results |-> <<>>, error |-> err]

\* a faulty then handler: it reports a failure although the batch succeeded
OnFulfilledRejects(c) ==
    [c EXCEPT !.logs = @ \o [k \in 1..Len(c.execPromise.results) |->
                                 LogEntry("info", "CmdResult")],
              !.produced = Append(@, ExecFailure(c, NoError)),
              !.promise = PromiseReject(@, ResultValue(ExecFailure(c, NoError))),
              !.handled = "then"]

\* .then(function(cmdResultsArray) {...})
OnFulfilled(c) ==
    [c EXCEPT !.logs = @ \o [k \in 1..Len(c.execPromise.results) |->
                                 LogEntry("info", "CmdResult")],
              !.produced = Append(@, ExecSuccess(c)),
              !.promise = PromiseResolve(@, ResultValue(ExecSuccess(c))),
              !.handled = "then"]

\* a faulty catch handler: it never calls reject
OnRejectedSilent(c) ==
    [c EXCEPT !.handled = "catch"]

\* .catch(function(error) {...})
OnRejected(c) ==
    [c EXCEPT !.produced = Append(@, ExecFailure(c, c.execPromise.error)),
              !.promise = PromiseReject(@, ResultValue(ExecFailure(c, c.execPromise.error))),
              !.handled = "catch"]

\* the executor's promise of call i fulfils, and the then handler runs on its results
ThenHandler(i) ==
    /\ calls[i].execPromise.state = "pending"
    /\ calls' = [calls EXCEPT ![i] =
                    OnFulfilled([calls[i] EXCEPT !.execPromise = Fulfilled(calls[i])])]
    /\ UNCHANGED <<pluginConfig, constructed, self, ctorTrace, pendingStat, uncaught,
                   executorLog>>

\* the executor's promise of call i rejects with err, and the catch handler runs on it
CatchHandler(i, err) ==
    /\ calls[i].execPromise.state = "pending"
    /\ calls' = [calls EXCEPT ![i] =
                    OnRejected([calls[i] EXCEPT !.execPromise = Rejected(err)])]
    /\ UNCHANGED <<pluginConfig, constructed, self, ctorTrace, pendingStat, uncaught,
                   executorLog>>

-----------------------------------------------------------------------------
(* The specification *)

Init ==
    /\ pluginConfig \in PluginConfigs
    /\ constructed = FALSE
    /\ self = Unconstructed
    /\ ctorTrace = <<>>
    /\ pendingStat = {}
    /\ uncaught = {}
    /\ calls = <<>>
    /\ executorLog = <<>>

Next ==
    \/ Construct
    \/ GeneratorProbe
    \/ TemplatesProbe
    \/ \E e \in Events : React(e)
    \/ \E i \in 1..Len(calls) : ThenHandler(i)
    \/ \E i \in 1..Len(calls), err \in ExecErrors : CatchHandler(i, err)

Spec == Init /\ [][Next]_vars

\* 'echo {{ns.field}}' for the two namespaces and for fields whose values hold no
\* character Mustache escapes
NamespaceTemplates ==
    {<<Lit("echo "), Var(ns, field)>> : ns \in {"event", "ioEvent"},
                                       field \in {"filename", "eventType"}}

\* configurations with a bound executor and exactly one of those templates
NamespaceConfigs ==
    [statefulProcessCommandProxy : {"config", "instance"},
     commandTemplates : {[defined |-> TRUE, list |-> <<t>>] : t \in NamespaceTemplates},
     commandGenerator : {"absent", "genList"}]

NamespaceInit ==
    /\ pluginConfig \in NamespaceConfigs
    /\ constructed = FALSE
    /\ self = Unconstructed
    /\ ctorTrace = <<>>
    /\ pendingStat = {}
    /\ uncaught = {}
    /\ calls = <<>>
    /\ executorLog = <<>>

\* the plugin on the configurations that exercise the template namespace
NamespaceSpec == NamespaceInit /\ [][Next]_vars

\* the executor's promise of call i settles, one way or the other
ExecutorSettles(i) ==
    /\ i \in 1..Len(calls)
    /\ (ThenHandler(i) \/ \E err \in ExecErrors : CatchHandler(i, err))

\* every promise an executor returned settles in the end
FairSpec == Spec /\ \A i \in 1..MaxCalls : WF_vars(ExecutorSettles(i))

-----------------------------------------------------------------------------
(* Vocabulary of the properties *)

Bound == self._statefulProcessCommandProxy # "undefined"

CallIds == 1..Len(calls)

Settled(c) == c.promise.state # "pending"

IsResult(c) == c.promise.value.type = "ReactorResult"

\* the promise of call c is rejected with a failure ReactorResult carrying err
RejectedWith(c, err) ==
    /\ c.promise.state = "rejected"
    /\ IsResult(c)
    /\ c.promise.value.result.isSuccess = FALSE
    /\ c.promise.value.result.error = err

RenderThrew(c) == \E k \in 1..Len(c.thrown) : c.thrown[k].step = "render"

GeneratorThrew(c) == \E k \in 1..Len(c.thrown) : c.thrown[k].step = "generator"

\* what each configured template renders to for event e, in configuration order
Renderings(e) ==
    [k \in 1..Len(self._commandTemplates.list) |->
        MustacheRender(self._commandTemplates.list[k], ReactViewKey, e)]

NonEmpty(str) == str # ""

\* the commands the templates yield for e: their non-empty renderings, in order
RenderedCommands(e) ==
    SelectSeq([k \in 1..Len(Renderings(e)) |-> Renderings(e)[k].out], NonEmpty)

\* the list the generator returns for e (nothing returned: the empty list)
GeneratedCommands(e) ==
    LET g == GeneratorApply(self._commandGenerator, e)
    IN IF g.defined THEN g.cmds ELSE <<>>

-----------------------------------------------------------------------------
(* The properties *)

\* C1: with templates and a generator configured, every render succeeding and the
\* generator returning a list G, the one batch handed to executeCommands is the
\* rendered commands in configuration order followed by G in the generator's order.
C1_TemplatesThenGenerated ==
    \A i \in CallIds :
        LET c == calls[i]
        IN (/\ Bound
            /\ self._commandTemplates.defined
            /\ self._commandGenerator \in GeneratorKinds
            /\ c.thrown = <<>>)
           => c.submitted = <<RenderedCommands(c.ioEvent) \o GeneratedCommands(c.ioEvent)>>

C1_Witness ==
    \E i \in CallIds :
        /\ self._commandTemplates.list = <<TplFullPath, TplFullPath>>
        /\ calls[i].submitted =
               <<(<<"cp /a/b/c.txt", "cp /a/b/c.txt", "cmdA /a/b/c.txt", "cmdB add">>)>>

\* C2: a react() call in which some template's rendering throws never invokes
\* executeCommands.
C2_NoSubmitAfterRenderError ==
    \A i \in CallIds : RenderThrew(calls[i]) => calls[i].submitted = <<>>

\* C3: a react() call in which the commandGenerator throws never invokes
\* executeCommands.
C3_NoSubmitAfterGeneratorError ==
    \A i \in CallIds : GeneratorThrew(calls[i]) => calls[i].submitted = <<>>

\* C4: when a render or the generator throws, the promise is rejected with a failure
\* ReactorResult whose error is the exception of the first failing step, in every
\* later state too, whatever the executor reports.
C4_FirstFailureWins ==
    \A i \in CallIds :
        calls[i].thrown # <<>> => RejectedWith(calls[i], calls[i].thrown[1].error)

C4_Witness ==
    \E i \in CallIds :
        /\ Len(calls[i].thrown) = 2
        /\ calls[i].thrown[1].step = "render"
        /\ calls[i].thrown[2].step = "generator"
        /\ calls[i].handled = "then"
        /\ RejectedWith(calls[i], calls[i].thrown[1].error)

\* C5: on a reactor with a bound executor the promise of a call is settled once its
\* executor promise has been handled, it is settled exactly once, and its value is a
\* ReactorResult whose ioEvent is the event react() was given.
C5_OneResultForTheEvent ==
    \A i \in CallIds :
        LET c == calls[i]
        IN Bound =>
               /\ (c.handled # "no" => Settled(c))
               /\ (Settled(c) =>
                       /\ c.promise.settles = 1
                       /\ IsResult(c)
                       /\ c.promise.value.result.ioEvent = c.ioEvent)

C5_Witness ==
    \E i, j \in CallIds :
        /\ Bound
        /\ calls[i].ioEvent # calls[j].ioEvent
        /\ calls[i].promise.state = "fulfilled"
        /\ calls[j].promise.state = "fulfilled"
        /\ calls[j].promise.value.result.ioEvent = calls[j].ioEvent

\* C6: whenever the promise of a react() call is rejected, the rejection value is a
\* ReactorResult with isSuccess false and an error, also on a reactor whose
\* construction bound no executor.
C6_RejectsWithResult ==
    \A i \in CallIds :
        calls[i].promise.state = "rejected" =>
            /\ IsResult(calls[i])
            /\ calls[i].promise.value.result.isSuccess = FALSE
            /\ calls[i].promise.value.result.error # NoError

\* C7: react() never throws to its caller: it returns a promise, and a throwing
\* render, a throwing generator or a throwing executeCommands call shows as a
\* rejection of that promise.
C7_NeverThrowsSynchronously ==
    \A i \in CallIds :
        LET c == calls[i]
        IN /\ c.returned = "promise"
           /\ (c.thrown # <<>> \/ ~Bound) => c.promise.state = "rejected"

C7_Witness ==
    \E i \in CallIds :
        /\ ~Bound
        /\ calls[i].thrown = <<>>
        /\ calls[i].returned = "promise"
        /\ calls[i].promise.value.type = "Error"

\* C8: every react() call settles in the end, given that the executor's promise
\* settles in the end: at any time, a later time comes at which the promise of every
\* call made so far is fulfilled or rejected, none is left pending.
C8_EventuallySettles ==
    []<>(\A i \in CallIds : Settled(calls[i]))

C8_Witness ==
    \E i \in CallIds :
        /\ calls[i].thrown = <<>>
        /\ calls[i].handled = "catch"
        /\ calls[i].promise.state = "rejected"

\* C9: when no template yields a command (none configured, or all render empty)
\* and the generator returns nothing, executeCommands is still called exactly once,
\* with the empty batch, and once the executor has accepted it the Result is a success.
C9_EmptyBatchSubmitted ==
    \A i \in CallIds :
        LET c == calls[i]
        IN (/\ Bound
            /\ c.thrown = <<>>
            /\ RenderedCommands(c.ioEvent) = <<>>
            /\ GeneratedCommands(c.ioEvent) = <<>>)
           => /\ c.submitted = <<(<<>>)>>
              /\ (c.handled = "then" =>
                      /\ c.promise.state = "fulfilled"
                      /\ IsResult(c)
                      /\ c.promise.value.result.isSuccess = TRUE
                      /\ c.promise.value.result.error = NoError)

C9_Witness ==
    \E i \in CallIds :
        /\ self._commandTemplates.list = <<TplEventNs>>
        /\ self._commandGenerator = "genNothing"
        /\ calls[i].submitted = <<(<<>>)>>
        /\ calls[i].handled = "then"
        /\ calls[i].promise.state = "fulfilled"

\* C10: when command production succeeded and the executor's promise rejects with
\* E, the promise of react() is rejected with one failure ReactorResult whose error
\* is E, and the Result has no per-command field.
C10_ExecutorErrorCarried ==
    \A i \in CallIds :
        LET c == calls[i]
        IN (c.thrown = <<>> /\ c.handled = "catch")
           => /\ RejectedWith(c, c.execPromise.error)
              /\ c.execPromise.error \in ExecErrors
              /\ c.promise.settles = 1
              /\ DOMAIN c.promise.value.result =
                     {"isSuccess", "pluginId", "reactorId", "ioEvent", "message", "error"}

C10_Witness ==
    \E i \in CallIds :
        /\ calls[i].thrown = <<>>
        /\ calls[i].handled = "catch"
        /\ Len(calls[i].submitted[1]) > 1
        /\ calls[i].promise.value.result.error \in ExecErrors

\* C11: when every template rendered, the generator did not throw and the
\* executor's promise fulfilled, the promise of react() is fulfilled with a success
\* ReactorResult, and the executor received the batch once, in the order produced.
C11_SuccessOnFulfil ==
    \A i \in CallIds :
        LET c == calls[i]
        IN (c.thrown = <<>> /\ c.handled = "then")
           => /\ c.promise.state = "fulfilled"
              /\ IsResult(c)
              /\ c.promise.value.result.isSuccess = TRUE
              /\ c.submitted = <<RenderedCommands(c.ioEvent) \o GeneratedCommands(c.ioEvent)>>
              /\ Len(SelectSeq(executorLog, LAMBDA x : x.call = i)) = 1
              /\ [k \in 1..Len(c.execPromise.results) |-> c.execPromise.results[k].command]
                     = c.submitted[1]

C11_Witness ==
    \E i \in CallIds :
        /\ calls[i].thrown = <<>>
        /\ calls[i].handled = "then"
        /\ Len(calls[i].execPromise.results) = 3
        /\ calls[i].promise.value.result.isSuccess = TRUE

\* the entries of the constructor's trace that are calls of callback ev
TraceOf(ev) == SelectSeq(ctorTrace, LAMBDA x : x.ev = ev)

\* C12: a constructor given a statefulProcessCommandProxy section with neither
\* 'config' nor 'instance' calls the log function at error severity and the error
\* callback with the error.
C12_MissingExecutorReported ==
    (constructed /\ pluginConfig.statefulProcessCommandProxy = "neither")
        => /\ \E k \in 1..Len(ctorTrace) :
                  ctorTrace[k].ev = "log" /\ ctorTrace[k].a = "error"
           /\ \E k \in 1..Len(ctorTrace) :
                  ctorTrace[k].ev = "onError" /\ ctorTrace[k].b = "Error"

C12_Witness ==
    /\ constructed
    /\ pluginConfig.statefulProcessCommandProxy = "neither"
    /\ Len(TraceOf("onError")) = 1
    /\ self._statefulProcessCommandProxy = "undefined"

\* the executor section of the configuration is valid: a config the proxy accepts,
\* or an instance
ValidExecutorConfig == pluginConfig.statefulProcessCommandProxy \in {"config", "instance"}

NoCommandSource == ~HasTemplates(pluginConfig) /\ ~HasGenerator(pluginConfig)

\* C13: a constructor given a valid executor configuration and neither
\* commandTemplates nor commandGenerator invokes the error callback.
C13_NoCommandSourceReported ==
    (constructed /\ ValidExecutorConfig /\ NoCommandSource)
        => Len(TraceOf("onError")) >= 1

AtLeastWarning(severity) == severity \in {"warn", "warning", "error", "fatal"}

\* C14: on a reactor constructed with neither commandTemplates nor commandGenerator,
\* no react() call ends in a success Result for an empty batch unless a log call of
\* warning severity or higher was made before.
C14_NoSilentEmptySuccess ==
    \A i \in CallIds :
        LET c == calls[i]
        IN (/\ NoCommandSource
            /\ c.promise.state = "fulfilled"
            /\ c.submitted = <<(<<>>)>>)
           => \/ \E k \in 1..Len(ctorTrace) :
                     ctorTrace[k].ev = "log" /\ AtLeastWarning(ctorTrace[k].a)
              \/ \E j \in CallIds : \E k \in 1..Len(calls[j].logs) :
                     AtLeastWarning(calls[j].logs[k].severity)

\* C15: a constructor given a valid executor configuration and at least one command
\* source invokes the initialization-complete callback exactly once, with the
\* pluginId, whichever command source is configured.
C15_InitializedOnce ==
    (constructed /\ ValidExecutorConfig /\ ~NoCommandSource)
        => /\ Len(TraceOf("initialized")) = 1
           /\ TraceOf("initialized")[1].a = PluginId

\* C16: on a reactor bound to a caller-supplied executor instance, the binding stays
\* that instance, every react() call hands its batch to that instance, and
\* executeCommands is the only operation the reactor ever invokes on it.
C16_InstanceOnlyExecutes ==
    (constructed /\ pluginConfig.statefulProcessCommandProxy = "instance")
        => /\ self._statefulProcessCommandProxy = "instance"
           /\ Len(executorLog) = Len(calls)
           /\ \A k \in 1..Len(executorLog) :
                  /\ executorLog[k].target = "instance"
                  /\ executorLog[k].op = "executeCommands"
                  /\ executorLog[k].call = k
                  /\ calls[k].submitted = <<executorLog[k].commands>>

C16_Witness ==
    /\ pluginConfig.statefulProcessCommandProxy = "instance"
    /\ Len(executorLog) = 2
    /\ executorLog[1].commands # executorLog[2].commands
    /\ executorLog[2].target = "instance"
    /\ calls[1].handled = "catch"

\* the reactor is configured only with the one template 'echo {{ns.filename}}'
OnlyEchoFilename(ns) ==
    /\ constructed
    /\ self._commandTemplates.list = <<(<<Lit("echo "), Var(ns, "filename")>>)>>
    /\ self._commandGenerator = "undefined"

\* C17 as stated: with the only template 'echo {{event.filename}}', an event with
\* fullPath /a/b/c.txt makes the reactor submit exactly the batch <<"echo c.txt">>.
C17_EventNamespace ==
    \A i \in CallIds :
        (OnlyEchoFilename("event") /\ calls[i].ioEvent.fullPath = <<"a", "b", "c.txt">>)
            => calls[i].submitted = <<(<<"echo c.txt">>)>>

\* C17 amended: the namespace is 'ioEvent'. With the only template
\* 'echo {{ioEvent.filename}}' that event yields exactly the batch <<"echo c.txt">>,
\* and a tag of the namespace 'event' renders as nothing.
C17_IoEventNamespace ==
    \A i \in CallIds :
        calls[i].ioEvent.fullPath = <<"a", "b", "c.txt">>
            => /\ OnlyEchoFilename("ioEvent") => calls[i].submitted = <<(<<"echo c.txt">>)>>
               /\ OnlyEchoFilename("event") => calls[i].submitted = <<(<<"echo ">>)>>

C17_Witness ==
    \E i \in CallIds :
        /\ OnlyEchoFilename("ioEvent")
        /\ calls[i].ioEvent.fullPath = <<"a", "b", "c.txt">>
        /\ calls[i].submitted = <<(<<"echo c.txt">>)>>
        /\ calls[i].handled = "then"

\* C18: in every ReactorResult a react() call constructs, an error is present
\* exactly when isSuccess is false.
C18_ErrorIffFailure ==
    \A i \in CallIds :
        \A k \in 1..Len(calls[i].produced) :
            (calls[i].produced[k].error # NoError) <=> (calls[i].produced[k].isSuccess = FALSE)

C18_Witness ==
    \E i \in CallIds :
        /\ Len(calls[i].produced) = 2
        /\ calls[i].produced[1].isSuccess = FALSE
        /\ calls[i].produced[1].error.kind = "GeneratorError"
        /\ calls[i].produced[2].isSuccess = TRUE
        /\ calls[i].produced[2].error = NoError

\* what react() itself did in call c, before any handler ran
Reaction(c) ==
    [commandsToExec |-> c.commandsToExec, rendered |-> c.rendered,
     generatorInvoked |-> c.generatorInvoked, thrown |-> c.thrown,
     submitted |-> c.submitted, returned |-> c.returned]

\* C19: react() keeps nothing between calls. Two calls with the same event do the
\* same and submit equal batches, whatever happened in the calls before or between
\* them (a failed one included), each with a Result of its own: with the same
\* executor outcome the two calls end in equal states.
C19_NoStateBetweenCalls ==
    \A i \in CallIds : \A j \in CallIds :
        calls[i].ioEvent = calls[j].ioEvent
            => /\ Reaction(calls[i]) = Reaction(calls[j])
               /\ calls[i].handled = calls[j].handled => calls[i] = calls[j]

C19_Witness ==
    /\ Len(calls) = 2
    /\ calls[1].ioEvent = calls[2].ioEvent
    /\ calls[1].handled = "catch"
    /\ calls[1].promise.state = "rejected"
    /\ calls[2].handled = "then"
    /\ calls[2].promise.state = "fulfilled"
    /\ calls[1].submitted = calls[2].submitted
    /\ calls[2].submitted # <<>>
    /\ calls[2].submitted[1] # <<>>

\* the promise of call c reflects the outcome of the batch c handed to the executor
ReflectsOwnOutcome(c) ==
    /\ c.handled = "no" => c.promise.state = "pending"
    /\ c.handled = "then" =>
           /\ c.promise.state = "fulfilled"
           /\ c.promise.value = ResultValue(ExecSuccess(c))
           /\ [k \in 1..Len(c.execPromise.results) |-> c.execPromise.results[k].command]
                  = c.submitted[1]
    /\ c.handled = "catch" =>
           /\ RejectedWith(c, c.execPromise.error)
           /\ c.promise.value.result.ioEvent = c.ioEvent

\* C20: with several react() calls in flight, their executor promises settling in
\* any order, every call's batch holds only the commands of its own event and its
\* promise settles with a Result that carries its own event and reflects the
\* outcome of its own batch.
C20_CallsDoNotMix ==
    \A i \in CallIds :
        calls[i].submitted # <<>>
            => /\ calls[i].submitted =
                      <<RenderedCommands(calls[i].ioEvent) \o GeneratedCommands(calls[i].ioEvent)>>
               /\ ReflectsOwnOutcome(calls[i])

\* the index of the first configured template whose rendering throws for event e
\* (0: none does)
FirstRenderFailure(e) ==
    LET failing == {k \in 1..Len(Renderings(e)) : Renderings(e)[k].threw}
    IN IF failing = {} THEN 0 ELSE CHOOSE k \in failing : \A m \in failing : k <= m

\* C21: in a react() call, once the rendering of a template fails, no later
\* template is rendered and the commandGenerator is not invoked.
C21_StopsAtRenderFailure ==
    \A i \in CallIds :
        RenderThrew(calls[i])
            => /\ calls[i].rendered =
                      [k \in 1..FirstRenderFailure(calls[i].ioEvent) |-> k]
               /\ ~calls[i].generatorInvoked

\* C22: the initialized callback is invoked only after the construction-time
\* validation has finished: no probe is still outstanding once it has fired.
C22_InitializedAfterProbes ==
    TraceOf("initialized") # <<>> => pendingStat = {}

\* C23: a commandGenerator that throws on the probe event is handled without
\* harm: the failure is logged at error severity and no exception escapes.
C23_GeneratorProbeNonFatal ==
    (/\ constructed
     /\ self._commandGenerator \in GeneratorKinds
     /\ GeneratorApply(self._commandGenerator, GeneratorProbeEvent).threw
     /\ "generator" \notin pendingStat)
        => /\ uncaught = {}
           /\ \E k \in 1..Len(ctorTrace) :
                  ctorTrace[k].ev = "log" /\ ctorTrace[k].a = "error"

\* C24: every failure of a react() call (render, generator or executor error) is
\* reported with a log call and an invocation of the error callback, besides the
\* failure Result.
C24_FailuresReportedTwice ==
    \A i \in CallIds :
        \A k \in 1..Len(calls[i].produced) :
            calls[i].produced[k].isSuccess = FALSE
                => /\ \E m \in 1..Len(calls[i].logs) : calls[i].logs[m].severity = "error"
                   /\ \E m \in 1..Len(ctorTrace) :
                          /\ ctorTrace[m].ev = "onError"
                          /\ ctorTrace[m].b = calls[i].produced[k].error.kind

\* the position in ctorTrace of the first entry of kind ev (0: there is none)
FirstOf(ev) ==
    LET at == {k \in 1..Len(ctorTrace) : ctorTrace[k].ev = ev}
    IN IF at = {} THEN 0 ELSE CHOOSE k \in at : \A m \in at : k <= m

\* C25: for every pluginConfig the constructor returns normally, once, and throws
\* nothing; an executor section that is missing or empty, or whose proxy
\* constructor throws, is seen by the owner through the log and the error callback,
\* both called before the constructor returns.
C25_ConstructorReturns ==
    constructed
        => /\ Len(TraceOf("return")) = 1
           /\ TraceOf("throw") = <<>>
           /\ pluginConfig.statefulProcessCommandProxy \notin {"config", "instance"}
                  => /\ Len(TraceOf("onError")) = 1
                     /\ FirstOf("onError") < FirstOf("return")
                     /\ \E k \in 1..FirstOf("return") :
                            ctorTrace[k].ev = "log" /\ ctorTrace[k].a = "error"

C25_Witness ==
    /\ constructed
    /\ pluginConfig.statefulProcessCommandProxy = "missingSection"
    /\ pluginConfig.commandTemplates.defined
    /\ ctorTrace[Len(ctorTrace)].ev = "return"
    /\ ctorTrace[2] = TraceEntry("onError", "unexpected error", "TypeError")

\* C26: a react() call on a reactor with a bound executor invokes executeCommands
\* at most once, and that one invocation is handed the whole ordered command list
\* of the call.
C26_OneSubmissionPerCall ==
    \A i \in CallIds :
        /\ Len(calls[i].submitted) <= 1
        /\ Len(SelectSeq(executorLog, LAMBDA x : x.call = i)) = Len(calls[i].submitted)
        /\ Bound => /\ Len(calls[i].submitted) = 1
                    /\ calls[i].submitted[1] = calls[i].commandsToExec

C26_Witness ==
    \E i \in CallIds :
        /\ Bound
        /\ Len(calls[i].commandsToExec) = 4
        /\ calls[i].submitted = <<calls[i].commandsToExec>>
        /\ calls[i].handled = "then"

\* C27: once the reactor is constructed, no step (a react() call, successful or
\* failed, or the settling of its batch) changes the template list, the generator,
\* the executor binding, the pluginId or the reactorId.
C27_ReactKeepsConfiguration ==
    [][constructed => self' = self]_vars

C27_Witness ==
    /\ Len(calls) = 2
    /\ calls[1].thrown # <<>>
    /\ calls[1].handled = "catch"
    /\ calls[2].handled = "then"
    /\ Len(self._commandTemplates.list) = 2
    /\ self._commandGenerator \in GeneratorKinds
    /\ self._commandTemplates = pluginConfig.commandTemplates
    /\ self._commandGenerator = pluginConfig.commandGenerator

\* C28: on a constructed reactor getId() returns the pluginId given to the
\* constructor, and every ReactorResult a react() call constructs, success or
\* failure, carries that pluginId and the reactorId given to the constructor.
C28_IdsInResults ==
    constructed
        => /\ getId = PluginId
           /\ \A i \in CallIds :
                  \A k \in 1..Len(calls[i].produced) :
                      /\ calls[i].produced[k].pluginId = PluginId
                      /\ calls[i].produced[k].reactorId = ReactorId

C28_Witness ==
    /\ getId = PluginId
    /\ \E i \in CallIds :
           /\ Len(calls[i].produced) = 2
           /\ calls[i].produced[1].message = "Error generating command from mustache template"
           /\ calls[i].produced[1].pluginId = PluginId
           /\ calls[i].produced[1].reactorId = ReactorId
           /\ calls[i].produced[2].isSuccess
           /\ calls[i].produced[2].pluginId = PluginId
           /\ calls[i].produced[2].reactorId = ReactorId

\* C29: executeCommands is invoked inside react(), before it returns: every call on
\* a bound reactor has handed over its batch by the time it has returned, and the
\* batches reach the executor in the order of the react() calls, whatever order
\* the promises settle in.
C29_SubmittedInCallOrder ==
    /\ \A k \in 1..Len(executorLog) : \A m \in 1..Len(executorLog) :
           k < m => executorLog[k].call < executorLog[m].call
    /\ Bound => \A i \in CallIds :
                    \E k \in 1..Len(executorLog) :
                        /\ executorLog[k].call = i
                        /\ executorLog[k].commands = calls[i].commandsToExec

C29_Witness ==
    /\ Len(executorLog) = 2
    /\ calls[1].ioEvent # calls[2].ioEvent
    /\ executorLog[1].commands = calls[1].commandsToExec
    /\ executorLog[2].commands = calls[2].commandsToExec
    /\ executorLog[1].commands # executorLog[2].commands
    /\ calls[1].handled = "no"
    /\ calls[2].handled = "then"

\* the configured templates whose rendering for event e is a non-empty string
NonEmptyRenderings(e) ==
    LET r == Renderings(e)
    IN {k \in 1..Len(r) : r[k].out # ""}

\* C30: a template that renders to the empty string adds nothing to the batch. The
\* template-derived part of the batch has one command for each configured template
\* with a non-empty rendering, in configuration order, and none of them is empty;
\* what follows it is what the generator returned.
C30_EmptyRenderingsLeftOut ==
    \A i \in CallIds :
        Bound
            => LET e == calls[i].ioEvent
                   batch == calls[i].submitted[1]
                   r == Renderings(e)
                   kept == NonEmptyRenderings(e)
                   n == Cardinality(kept)
                   generated == GeneratedCommands(e)
               IN /\ Len(batch) = n + Len(generated)
                  /\ \A k \in 1..n : batch[k] # ""
                  /\ \A j \in kept : batch[Cardinality({m \in kept : m <= j})] = r[j].out
                  /\ SubSeq(batch, n + 1, Len(batch)) = generated

C30_Witness ==
    \E i \in CallIds :
        /\ Bound
        /\ self._commandTemplates.list = <<TplEventNs, TplFullPath>>
        /\ self._commandGenerator = "undefined"
        /\ calls[i].rendered = <<1, 2>>
        /\ calls[i].submitted = <<(<<"cp /a/b/c.txt">>)>>

=============================================================================
